---- MODULE Spec2Model ----
(***************************************************************************)
(* A model of gossh's forwarding engine (direct.go): the context-aware     *)
(* copy loop CopyBufferWithContext, the two-direction binding              *)
(* bindConnsWithBuffer, the one-shot binds BindConnToWithBuffer and        *)
(* BindTcpConnToWithBuffer, and the accept loops RedirectToWithBuffer and  *)
(* DirectTcpToWithBuffer.                                                  *)
(*                                                                         *)
(* Every connection slot b holds a local stream "l" and a remote stream    *)
(* "r".  A stream is what the program holds of a net.Conn: the bytes its   *)
(* peer sends, the bytes written to it, and whether Close was called.      *)
(* The peers, the listener, the dialler and the cancel functions are the   *)
(* environment.                                                            *)
(***************************************************************************)
EXTENDS Integers, Sequences, FiniteSets, TLC

\* ------------------------------------------------------------------ bounds
MaxConns == 2    \* connection slots (connections a listener hands out)
MaxLen == 2      \* longest byte sequence the source of a single copy delivers
MaxBuf == 2      \* largest explicit buffer size
MaxBindLen == 1  \* longest byte sequence a peer of a bound connection sends
MaxCallers == 2  \* invocations of Shell / Exec on one session
MaxRetries == 2  \* largest maxErrRetries given to KeepAlive
MaxCancelCalls == 2  \* calls of one cancel function
MaxDim == 2      \* largest width and height of the terminal
MaxEnvs == 3     \* variables in the map given to SetEnvs
MaxLines == 2    \* lines in the known_hosts files

\* ------------------------------------------------------- program constants
DefaultBufSize == 32768   \* size := 32 * 1024

B == 1..MaxConns
Side == {"l", "r"}
Dir == {"l2r", "r2l"}
Ctx == {"c1", "c2"}
Byte == {"a", "b"}
Callers == 1..MaxCallers

SeqsUpTo(S, n) == UNION {[1..k -> S] : k \in 0..n}

Min(x, y) == IF x <= y THEN x ELSE y

VARIABLES
  conn,     \* conn[b][s]: the stream on side s of slot b
  copy,     \* copy[b][d]: the CopyBufferWithContext call of direction d and its goroutine
  task,     \* task[b]: the call or goroutine that owns slot b
  loop,     \* the accept loop
  ctxDone,  \* ctxDone[c]: context c is cancelled
  sess,     \* the session: the ssh.Session a Session wraps, and its channel
  call,     \* call[p]: an invocation of Shell or Exec on the session
  ka,       \* the goroutine of KeepAlive
  win,      \* the resize watcher of the session
  term,     \* the size of the local terminal
  env,      \* a call of SetEnvs
  kh        \* a call of KnownHostsCheck and the known_hosts files it works on

fwdVars == <<conn, copy, task, loop, ctxDone>>
auxVars == <<env, kh>>
sessVars == <<sess, call, ka, win, term, env, kh>>
vars == <<conn, copy, task, loop, ctxDone, sess, call, ka, win, term, env, kh>>

\* ------------------------------------------------------------------ streams
\* The source of direction d reads from side Src(d) and writes to side Dst(d).
Src(d) == IF d = "l2r" THEN "l" ELSE "r"
Dst(d) == IF d = "l2r" THEN "r" ELSE "l"

\* A plausible slip: the two contexts are handed to the wrong directions.
CtxOf_swapped(b, d) == IF d = "l2r" THEN task[b].rctx ELSE task[b].wctx

\* The context a direction's copy is given: l->remote gets wctx, remote->l gets rctx.
CtxOf(b, d) == IF d = "l2r" THEN task[b].wctx ELSE task[b].rctx

NoConn ==
  [st |-> "none", closeCalls |-> 0, closeOk |-> 0, data |-> <<>>, sentN |-> 0,
   readN |-> 0, peer |-> "open", out |-> <<>>, wmode |-> "ok",
   writerTo |-> FALSE, readerFrom |-> FALSE]

\* A stream as the environment hands it over: opened, nothing delivered yet.
NewConn(data, wmode, writerTo, readerFrom) ==
  [NoConn EXCEPT !.st = "open", !.data = data, !.wmode = wmode,
                 !.writerTo = writerTo, !.readerFrom = readerFrom]

Avail(c) == c.sentN - c.readN

\* Close: the first call closes the stream and returns nil, a later call returns
\* an error and changes nothing.  A closed stream carries no bytes any more:
\* what was not read is dropped, and what was written is no longer followed.
CloseConn(c) ==
  [c EXCEPT !.closeCalls = @ + 1,
            !.closeOk = IF c.st = "open" THEN @ + 1 ELSE @,
            !.st = "closed",
            !.data = <<>>, !.sentN = 0, !.readN = 0, !.peer = "open",
            !.out = <<>>]

\* A Read returns once the stream is closed, has bytes, or its peer has ended.
ReadReady(c) == c.st = "closed" \/ Avail(c) > 0 \/ c.peer # "open"

\* The results (nr, er) a Read into a buffer of length n can give.
ReadResults(c, n) ==
  IF c.st = "closed" THEN {<<0, "errClosed">>}
  ELSE
    {<<k, "nil">> : k \in 1..Min(n, Avail(c))}
    \cup (IF c.peer = "eof" /\ c.sentN = Len(c.data)
          THEN {<<k, "EOF">> : k \in {Avail(c)} \cap (0..n)} ELSE {})
    \cup (IF c.peer = "reset"
          THEN {<<k, "readErr">> : k \in 0..Min(n, Avail(c))} ELSE {})

\* The results (nw, ew) a Write of nr bytes can give.
WriteResults(c, nr) ==
  IF c.st = "closed" THEN {<<0, "errClosed">>}
  ELSE IF c.wmode = "ok" THEN {<<nr, "nil">>}
  ELSE {<<k, e>> : k \in (-1)..(nr + 1), e \in {"nil", "writeErr"}}

\* The bytes the stream has taken of chunk p when Write returns nw.
Taken(p, nw) == IF nw < 0 THEN <<>> ELSE SubSeq(p, 1, Min(nw, Len(p)))

\* --------------------------------------------------- CopyBufferWithContext
IdleCopy ==
  [pc |-> "idle", written |-> 0, err |-> "nil", exit |-> "none", buf |-> <<>>,
   er |-> "nil", delegated |-> FALSE, didRead |-> FALSE,
   didWrite |-> FALSE]

\* len(buf) of the call: a nil buffer is replaced by one of the default size.
BufLen(b) == IF task[b].bufSize <= 0 THEN DefaultBufSize ELSE task[b].bufSize

\* src.(io.WriterTo) or dst.(io.ReaderFrom): the copy is handed to the stream.
Delegates(b, d) == conn[b][Src(d)].writerTo \/ conn[b][Dst(d)].readerFrom

\* The call up to its loop: the two type switches; a copy handed to the stream
\* runs the same loop (io.Copy) and never looks at ctx.
StartCopy(b, d) ==
  [IdleCopy EXCEPT !.delegated = Delegates(b, d),
                   !.pc = IF Delegates(b, d) THEN "read" ELSE "loop"]

\* select { case <-ctx.Done(): return written, interruptedErr; default: ... }
CopySelect(b, d) ==
  /\ copy[b][d].pc = "loop"
  /\ copy' = IF ctxDone[CtxOf(b, d)]
             THEN [copy EXCEPT ![b][d].pc = "ret", ![b][d].exit = "ctxDone",
                               ![b][d].err = "interruptedErr"]
             ELSE [copy EXCEPT ![b][d].pc = "read"]
  /\ UNCHANGED <<conn, task, loop, ctxDone, sessVars>>

\* A plausible slip: io.EOF is returned like any other read error.
ReadErr_eofIsError(er) == er

\* The err the call returns for a read that ended with er.
ReadErr(er) == IF er # "EOF" THEN er ELSE "nil"

\* A plausible slip: er is looked at before the nr bytes are written.
AfterRead_errFirst(c, chunk, er) ==
  IF Len(chunk) > 0 /\ er = "nil"
  THEN [c EXCEPT !.pc = "write", !.buf = chunk, !.er = er, !.didRead = TRUE]
  ELSE [c EXCEPT !.pc = "ret", !.exit = "ret", !.err = ReadErr(er), !.didRead = TRUE]

\* The copy after src.Read(buf) gave the bytes chunk and er: if nr > 0 the
\* bytes are written first, whatever er; with nr = 0 er ends the copy.
AfterRead(c, chunk, er) ==
  IF Len(chunk) > 0
  THEN [c EXCEPT !.pc = "write", !.buf = chunk, !.er = er, !.didRead = TRUE]
  ELSE [c EXCEPT !.pc = "ret", !.exit = "ret", !.err = ReadErr(er), !.didRead = TRUE]

\* nr, er := src.Read(buf)
CopyRead(b, d) ==
  LET s == Src(d)
      c == conn[b][s]
  IN /\ copy[b][d].pc = "read"
     /\ ReadReady(c)
     /\ \E r \in ReadResults(c, BufLen(b)) :
          LET nr == r[1]
              er == r[2]
          IN /\ conn' = [conn EXCEPT ![b][s].readN = @ + nr]
             /\ copy' = [copy EXCEPT ![b][d] =
                           AfterRead(@, SubSeq(c.data, c.readN + 1, c.readN + nr), er)]
     /\ UNCHANGED <<task, loop, ctxDone, sessVars>>

\* A plausible slip: the count of the write is added as the writer gave it.
ValidNw_raw(nr, nw) == nw

\* if nw < 0 || nr < nw { nw = 0; if ew == nil { ew = errInvalidWrite } }
ValidNw(nr, nw) == IF nw < 0 \/ nr < nw THEN 0 ELSE nw
ValidEw(nr, nw, ew) ==
  IF (nw < 0 \/ nr < nw) /\ ew = "nil" THEN "errInvalidWrite" ELSE ew

\* A plausible slip: a write that took fewer bytes without an error is let pass.
WriteErr_noShort(nr, nw, ew) ==
  IF ValidEw(nr, nw, ew) # "nil" THEN ValidEw(nr, nw, ew)
  ELSE "go on"

\* The err after the write of nr bytes returned (nw, ew), or "go on".
WriteErr(nr, nw, ew) ==
  IF ValidEw(nr, nw, ew) # "nil" THEN ValidEw(nr, nw, ew)
  ELSE IF nr # ValidNw(nr, nw) THEN "ErrShortWrite"
  ELSE "go on"

\* nw, ew := dst.Write(buf[0:nr]) and what follows it in the iteration.
CopyWrite(b, d) ==
  LET s == Dst(d)
      c == conn[b][s]
      p == copy[b][d].buf
      nr == Len(p)
      er == copy[b][d].er
  IN /\ copy[b][d].pc = "write"
     /\ \E w \in WriteResults(c, nr) :
          LET nw == w[1]
              ew == w[2]
              stop == WriteErr(nr, nw, ew)
          IN /\ conn' = [conn EXCEPT ![b][s].out = @ \o Taken(p, nw)]
             /\ copy' =
                  IF stop # "go on"
                  THEN [copy EXCEPT ![b][d].pc = "ret", ![b][d].exit = "ret",
                                    ![b][d].err = stop,
                                    ![b][d].written = @ + ValidNw(nr, nw),
                                    ![b][d].buf = <<>>, ![b][d].er = "nil",
                                    ![b][d].didWrite = TRUE]
                  ELSE IF er # "nil"
                  THEN [copy EXCEPT ![b][d].pc = "ret", ![b][d].exit = "ret",
                                    ![b][d].err = ReadErr(er),
                                    ![b][d].written = @ + ValidNw(nr, nw),
                                    ![b][d].buf = <<>>, ![b][d].er = "nil",
                                    ![b][d].didWrite = TRUE]
                  ELSE [copy EXCEPT ![b][d].pc = IF copy[b][d].delegated
                                                 THEN "read" ELSE "loop",
                                    ![b][d].written = @ + ValidNw(nr, nw),
                                    ![b][d].buf = <<>>,
                                    ![b][d].didWrite = TRUE]
     /\ UNCHANGED <<task, loop, ctxDone, sessVars>>

\* ------------------------------------------------------------- environment
\* The context of an accept loop; its bindings get it for both directions.
LoopCtx == "c1"

\* Somebody may still look at context c: the accept loop or a handler before
\* its select, or a copy that was given c and has not returned.
Watched(c) ==
  \/ c = LoopCtx /\ loop.pc \in {"select", "accept", "hook"}
  \/ \E b \in B : /\ task[b].pc \in {"select", "resolve", "dial", "bind"}
                   /\ c \in {task[b].rctx, task[b].wctx}
  \/ \E b \in B, d \in Dir : /\ copy[b][d].pc \in {"loop", "read", "write"}
                             /\ c = CtxOf(b, d)

\* A cancel function is called (a call nobody can see any more is left out).
Cancel(c) ==
  /\ ~ctxDone[c]
  /\ Watched(c)
  /\ ctxDone' = [ctxDone EXCEPT ![c] = TRUE]
  /\ UNCHANGED <<conn, copy, task, loop, sessVars>>

\* A copy is reading side s of slot b, or is about to: what the peer does on a
\* stream nobody reads is seen by nobody.
HasReader(b, s) ==
  \E d \in Dir : Src(d) = s /\ copy[b][d].pc \in {"loop", "read", "write"}

\* The peer of an open stream sends its next byte.
PeerSend(b, s) ==
  /\ conn[b][s].st = "open"
  /\ HasReader(b, s)
  /\ conn[b][s].peer = "open"
  /\ conn[b][s].sentN < Len(conn[b][s].data)
  /\ conn' = [conn EXCEPT ![b][s].sentN = @ + 1]
  /\ UNCHANGED <<copy, task, loop, ctxDone, sessVars>>

\* The peer ends its sending: a clean end once all is sent, or a failure.
PeerEnd(b, s) ==
  /\ conn[b][s].st = "open"
  /\ HasReader(b, s)
  /\ conn[b][s].peer = "open"
  /\ \/ /\ conn[b][s].sentN = Len(conn[b][s].data)
        /\ conn' = [conn EXCEPT ![b][s].peer = "eof"]
     \/ conn' = [conn EXCEPT ![b][s].peer = "reset"]
  /\ UNCHANGED <<copy, task, loop, ctxDone, sessVars>>

\* ------------------------------------------------- bindConnsWithBuffer
NoTask ==
  [kind |-> "none", pc |-> "idle", result |-> "none", wg |-> 0,
   rctx |-> "c1", wctx |-> "c1", bufSize |-> 0, ctxAtCall |-> FALSE,
   hooked |-> FALSE]

\* wg.Add(2) and the two go statements: both copies start.
BindConnsStart(b) ==
  /\ task[b].pc = "bind"
  /\ task' = [task EXCEPT ![b].wg = 2, ![b].pc = "wait"]
  /\ copy' = [copy EXCEPT ![b] = [d \in Dir |-> StartCopy(b, d)]]
  /\ UNCHANGED <<conn, loop, ctxDone, sessVars>>

\* A plausible slip: the goroutine closes only the stream it read from.
GoCloseL_onlySrc(b, d) ==
  /\ task[b].kind # "copy"
  /\ copy[b][d].pc = "ret"
  /\ conn' = [conn EXCEPT ![b]["l"] = IF Src(d) = "l" THEN CloseConn(@) ELSE @]
  /\ copy' = [copy EXCEPT ![b][d].pc = "closedL"]
  /\ UNCHANGED <<task, loop, ctxDone, sessVars>>

\* The goroutine of direction d after its copy returned: lconn.Close()
GoCloseL(b, d) ==
  /\ task[b].kind # "copy"
  /\ copy[b][d].pc = "ret"
  /\ conn' = [conn EXCEPT ![b]["l"] = CloseConn(@)]
  /\ copy' = [copy EXCEPT ![b][d].pc = "closedL"]
  /\ UNCHANGED <<task, loop, ctxDone, sessVars>>

\* A plausible slip: the goroutine closes only the stream it read from.
GoCloseR_onlySrc(b, d) ==
  /\ copy[b][d].pc = "closedL"
  /\ conn' = [conn EXCEPT ![b]["r"] = IF Src(d) = "r" THEN CloseConn(@) ELSE @]
  /\ copy' = [copy EXCEPT ![b][d] = [IdleCopy EXCEPT !.pc = "done"]]
  /\ task' = [task EXCEPT ![b].wg = IF task[b].kind = "redirect" THEN @ ELSE @ - 1]
  /\ UNCHANGED <<loop, ctxDone, sessVars>>

\* rconn.Close() and, in bindConnsWithBuffer, wg.Done(): the goroutine ends,
\* and with it the results of its copy, which it never looked at.
GoCloseR(b, d) ==
  /\ copy[b][d].pc = "closedL"
  /\ conn' = [conn EXCEPT ![b]["r"] = CloseConn(@)]
  /\ copy' = [copy EXCEPT ![b][d] = [IdleCopy EXCEPT !.pc = "done"]]
  /\ task' = [task EXCEPT ![b].wg = IF task[b].kind = "redirect" THEN @ ELSE @ - 1]
  /\ UNCHANGED <<loop, ctxDone, sessVars>>

\* A plausible slip: wg.Add(1) for two goroutines.
WgWaitReady_addOne(b) == task[b].wg <= 1

\* wg.Wait() lets the caller go on.
WgWaitReady(b) == task[b].wg = 0

\* A plausible slip: the bind hands on an error of one of its copies.
BindConnsWait_handsOnErr(b) ==
  /\ task[b].pc = "wait"
  /\ WgWaitReady(b)
  /\ \E r \in {"nil", "copyErr"} :
       task' = [task EXCEPT ![b].pc = "returned", ![b].result = r]
  /\ UNCHANGED <<conn, copy, loop, ctxDone, sessVars>>

\* wg.Wait() returns, and with it bindConnsWithBuffer and the bind: return nil
BindConnsWait(b) ==
  /\ task[b].pc = "wait"
  /\ WgWaitReady(b)
  /\ task' = [task EXCEPT ![b].pc = "returned", ![b].result = "nil"]
  /\ UNCHANGED <<conn, copy, loop, ctxDone, sessVars>>

\* ------------------------- BindConnToWithBuffer, BindTcpConnToWithBuffer
\* remoteConn, err := d.client.Dial(netType, addr) with err == nil
BindDialOk(b) ==
  /\ task[b].kind \in {"bind", "directTcp"}
  /\ task[b].pc = "dial"
  /\ conn' = [conn EXCEPT ![b]["r"].st = "open"]
  /\ task' = [task EXCEPT ![b].pc = "bind"]
  /\ UNCHANGED <<copy, loop, ctxDone, sessVars>>

\* A plausible slip: the failed bind closes the caller's stream.
BindDialFail_closes(b) ==
  /\ task[b].kind \in {"bind", "directTcp"}
  /\ task[b].pc = "dial"
  /\ task' = [task EXCEPT ![b].pc = "returned", ![b].result = "dialErr"]
  /\ conn' = [conn EXCEPT ![b]["l"] = CloseConn(@)]
  /\ UNCHANGED <<copy, loop, ctxDone, sessVars>>

\* err != nil: return err
BindDialFail(b) ==
  /\ task[b].kind \in {"bind", "directTcp"}
  /\ task[b].pc = "dial"
  /\ task' = [task EXCEPT ![b].pc = "returned", ![b].result = "dialErr"]
  /\ UNCHANGED <<conn, copy, loop, ctxDone, sessVars>>

\* ---------------------------------------------- RedirectToWithBuffer
NoLoop == [kind |-> "none", pc |-> "idle", why |-> "none", nAccepted |-> 0,
           hasCb |-> FALSE, cur |-> 0, bufSize |-> 0]

\* A plausible slip: the loop calls Accept without looking at the context.
LoopSelect_noCheck ==
  /\ loop.pc = "select"
  /\ loop' = [loop EXCEPT !.pc = "accept"]
  /\ UNCHANGED <<conn, copy, task, ctxDone, sessVars>>

\* select { case <-ctx.Done(): return; default: listener.Accept() }
LoopSelect ==
  /\ loop.pc = "select"
  /\ loop' = IF ctxDone[LoopCtx]
             THEN [loop EXCEPT !.pc = "returned", !.why = "ctx"]
             ELSE [loop EXCEPT !.pc = "accept"]
  /\ UNCHANGED <<conn, copy, task, ctxDone, sessVars>>

\* The goroutine the loop hands the accepted connection to; the connection is
\* the one NewConnCb returned when the loop comes from the call of the hook.
Handler(kind) ==
  [NoTask EXCEPT !.kind = kind, !.pc = IF kind = "redirect" THEN "dial" ELSE "select",
                 !.rctx = LoopCtx, !.wctx = LoopCtx, !.bufSize = loop.bufSize,
                 !.hooked = (loop.pc = "hook")]

\* The clients of the listener connect one after the other: the next one
\* arrives when the goroutines of the earlier connections have ended.  (The
\* goroutines of different connections share nothing but the context, which
\* they only read.)
ClientArrives ==
  /\ \A b \in B : task[b].pc \in {"idle", "returned"}
  /\ \A b \in B, d \in Dir : copy[b][d].pc \in {"idle", "done"}

\* lconn, err := listener.Accept() with err == nil
LoopAcceptOk ==
  LET b == loop.nAccepted + 1
  IN /\ loop.pc = "accept"
     /\ b \in B
     /\ ClientArrives
     /\ conn' = [conn EXCEPT ![b]["l"].st = "open"]
     /\ IF loop.kind = "directTcp" /\ loop.hasCb
        THEN /\ loop' = [loop EXCEPT !.pc = "hook", !.nAccepted = b, !.cur = b]
             /\ task' = task
        ELSE /\ loop' = [loop EXCEPT !.pc = "select", !.nAccepted = b, !.cur = b]
             /\ task' = [task EXCEPT ![b] = Handler(loop.kind)]
     /\ UNCHANGED <<copy, ctxDone, sessVars>>

\* err != nil: return
LoopAcceptErr ==
  /\ loop.pc = "accept"
  /\ loop' = [loop EXCEPT !.pc = "returned", !.why = "acceptErr"]
  /\ UNCHANGED <<conn, copy, task, ctxDone, sessVars>>

\* The goroutine of an accepted connection: rconn, err := d.client.Dial(...)
\* succeeded; it starts the two copying goroutines and ends.
RedirectDialOk(b) ==
  /\ task[b].kind = "redirect"
  /\ task[b].pc = "dial"
  /\ conn' = [conn EXCEPT ![b]["r"].st = "open"]
  /\ copy' = [copy EXCEPT ![b] = [d \in Dir |-> StartCopy(b, d)]]
  /\ task' = [task EXCEPT ![b].pc = "returned", ![b].result = "nil"]
  /\ UNCHANGED <<loop, ctxDone, sessVars>>

\* err != nil: return
RedirectDialFail(b) ==
  /\ task[b].kind = "redirect"
  /\ task[b].pc = "dial"
  /\ task' = [task EXCEPT ![b].pc = "returned", ![b].result = "dialErr"]
  /\ UNCHANGED <<conn, copy, loop, ctxDone, sessVars>>

\* ---------------------------------------------- DirectTcpToWithBuffer
\* transFormedConn, err := d.NewConnCb(lconn) with err == nil
LoopHookOk ==
  /\ loop.pc = "hook"
  /\ loop' = [loop EXCEPT !.pc = "select"]
  /\ task' = [task EXCEPT ![loop.cur] = Handler(loop.kind)]
  /\ UNCHANGED <<conn, copy, ctxDone, sessVars>>

\* err != nil: return
LoopHookErr ==
  /\ loop.pc = "hook"
  /\ loop' = [loop EXCEPT !.pc = "returned", !.why = "hookErr"]
  /\ UNCHANGED <<conn, copy, task, ctxDone, sessVars>>

\* The goroutine of an accepted connection: select on ctx.Done()
HandlerSelect(b) ==
  /\ task[b].kind = "directTcp"
  /\ task[b].pc = "select"
  /\ task' = IF ctxDone[LoopCtx]
             THEN [task EXCEPT ![b].pc = "returned", ![b].result = "ctxDone"]
             ELSE [task EXCEPT ![b].pc = "resolve"]
  /\ UNCHANGED <<conn, copy, loop, ctxDone, sessVars>>

\* origin, err := net.ResolveTCPAddr(...); on success BindTcpConnToWithBuffer
HandlerResolve(b) ==
  /\ task[b].kind = "directTcp"
  /\ task[b].pc = "resolve"
  /\ \/ task' = [task EXCEPT ![b].pc = "dial"]
     \/ task' = [task EXCEPT ![b].pc = "returned", ![b].result = "resolveErr"]
  /\ UNCHANGED <<conn, copy, loop, ctxDone, sessVars>>

\* ================================================================ Session
\* --------------------------------------------------- Shell, Exec and Wait
\* The session as the ssh package keeps it and as the remote side sees it:
\* st is the state of the execution, started the flag of ssh.Session that
\* Shell, Start and Wait look at, chOpen whether the channel still carries
\* requests, nReq the shell/exec requests that went out on the channel, and
\* remoteWin the size of the last window-change request.
NoSess ==
  [st |-> "created", started |-> FALSE, chOpen |-> TRUE, nReq |-> 0,
   remoteWin |-> [w |-> 0, h |-> 0]]

\* call[p]: one invocation of Shell or Exec; atSt is the state of the session
\* when the call was made, sent whether it put a request on the channel.
NoCall ==
  [op |-> "none", pc |-> "idle", err |-> "none", sent |-> FALSE, atSt |-> "none"]

Op == {"Shell", "Exec"}

\* A plausible slip: the call goes on to its request whatever the flag says.
SessInvoke_noGuard(p, op) ==
  /\ call[p].pc = "idle"
  /\ call' = [call EXCEPT ![p] = [@ EXCEPT !.op = op, !.pc = "send", !.atSt = sess.st]]
  /\ UNCHANGED <<sess, ka, win, term, fwdVars, auxVars>>

\* Session.Shell calls s.sess.Shell(), Session.Exec calls s.sess.Run(cmdline):
\* both begin with `if s.started { return errors.New("ssh: session already
\* started") }`.  Nothing is locked between this test and the request.
SessInvoke(p, op) ==
  /\ call[p].pc = "idle"
  /\ call' = [call EXCEPT ![p] =
       IF sess.started
       THEN [@ EXCEPT !.op = op, !.pc = "returned", !.err = "alreadyStarted",
                      !.atSt = sess.st]
       ELSE [@ EXCEPT !.op = op, !.pc = "send", !.atSt = sess.st]]
  /\ UNCHANGED <<sess, ka, win, term, fwdVars, auxVars>>

\* The "shell" / "exec" request with wantReply: on a closed channel it fails
\* with nothing sent; otherwise the request goes out and the remote accepts it
\* (the call sets started and goes on to Wait) or it fails (the call returns
\* the error and started stays as it was).
SessSend(p) ==
  /\ call[p].pc = "send"
  /\ IF ~sess.chOpen
     THEN /\ call' = [call EXCEPT ![p].pc = "returned", ![p].err = "reqErr"]
          /\ sess' = sess
     ELSE \/ /\ call' = [call EXCEPT ![p].pc = "wait", ![p].sent = TRUE]
             /\ sess' = [sess EXCEPT !.nReq = @ + 1, !.started = TRUE,
                                     !.st = "running"]
          \/ /\ call' = [call EXCEPT ![p].pc = "returned", ![p].err = "reqErr",
                                     ![p].sent = TRUE]
             /\ sess' = [sess EXCEPT !.nReq = @ + 1]
  /\ UNCHANGED <<ka, win, term, fwdVars, auxVars>>

\* s.sess.Wait() returns once the execution is over: nil or the exit error.
SessWait(p) ==
  /\ call[p].pc = "wait"
  /\ sess.st = "terminated"
  /\ \E e \in {"nil", "exitErr"} :
       call' = [call EXCEPT ![p].pc = "returned", ![p].err = e]
  /\ UNCHANGED <<sess, ka, win, term, fwdVars, auxVars>>

\* The remote reports the end of the execution (or the connection fails): the
\* channel is closed.
SessExit ==
  /\ sess.st = "running"
  /\ sess' = [sess EXCEPT !.st = "terminated", !.chOpen = FALSE]
  /\ UNCHANGED <<call, ka, win, term, fwdVars, auxVars>>

\* A plausible slip: closing the session also ends the keepalive goroutine.
SessClose_cancels ==
  /\ sess.chOpen
  /\ sess' = [sess EXCEPT !.st = "terminated", !.chOpen = FALSE]
  /\ ka' = IF ka.pc \in {"select", "sending"}
           THEN [ka EXCEPT !.pc = "stopped", !.why = "closed"] ELSE ka
  /\ UNCHANGED <<call, win, term, fwdVars, auxVars>>

\* Session.Close(): the channel is closed, whatever the session was doing.
SessClose ==
  /\ sess.chOpen
  /\ sess' = [sess EXCEPT !.st = "terminated", !.chOpen = FALSE]
  /\ UNCHANGED <<call, ka, win, term, fwdVars, auxVars>>

\* ------------------------------------- PreparePty, PreparePtyWithSize
\* PreparePty measures the terminal (an error ends the call), then, as
\* PreparePtyWithSize does at once, calls s.sess.RequestPty: a "pty-req"
\* request with wantReply, sent in whatever state the session is.  On a closed
\* channel it fails with nothing sent; otherwise it goes out and the remote
\* grants the pty or rejects the request.
SessPreparePty(p) ==
  /\ call[p].pc = "idle"
  /\ \/ /\ call' = [call EXCEPT ![p] = [@ EXCEPT !.op = "PreparePty",
                         !.pc = "returned", !.err = "sizeErr", !.atSt = sess.st]]
        /\ sess' = sess
     \/ /\ ~sess.chOpen
        /\ call' = [call EXCEPT ![p] = [@ EXCEPT !.op = "PreparePty",
                         !.pc = "returned", !.err = "reqErr", !.atSt = sess.st]]
        /\ sess' = sess
     \/ /\ sess.chOpen
        /\ call' = [call EXCEPT ![p] = [@ EXCEPT !.op = "PreparePty",
                         !.pc = "returned", !.err = "nil", !.sent = TRUE,
                         !.atSt = sess.st]]
        /\ sess' = [sess EXCEPT !.st = IF @ = "created" THEN "ptyRequested" ELSE @]
     \/ /\ sess.chOpen
        /\ call' = [call EXCEPT ![p] = [@ EXCEPT !.op = "PreparePty",
                         !.pc = "returned", !.err = "reqErr", !.sent = TRUE,
                         !.atSt = sess.st]]
        /\ sess' = sess
  /\ UNCHANGED <<ka, win, term, fwdVars, auxVars>>

\* -------------------------------------------------------------- KeepAlive
\* ka: the goroutine KeepAlive started.  budget is the variable maxErrRetries,
\* n0 its value at the call; fails counts the failed requests (it stays at
\* MaxKaFails once there); okBetween says that a request succeeded after one had
\* failed; cancelCalls counts the calls of the returned cancel.
NoKa ==
  [mode |-> "none", pc |-> "none", n0 |-> 0, budget |-> 0, fails |-> 0,
   okBetween |-> FALSE, why |-> "none", cancelCalls |-> 0]

MaxKaFails == MaxRetries + 1

\* The state KeepAlive(interval, maxErrRetries) leaves behind when it returns.
KeepAlive(intervalPositive, maxErrRetries) ==
  IF ~intervalPositive
  THEN [NoKa EXCEPT !.mode = "off", !.n0 = maxErrRetries, !.budget = maxErrRetries]
  ELSE [NoKa EXCEPT !.mode = IF maxErrRetries <= 0 THEN "unlimited" ELSE "budget",
                    !.pc = "select", !.n0 = maxErrRetries, !.budget = maxErrRetries]

\* A plausible slip: both modes run the loop that counts the failures down.
KaAfterErr_budgetOnly(k) ==
  IF k.budget <= 0
  THEN [k EXCEPT !.pc = "stopped", !.why = "budget",
                 !.fails = Min(@ + 1, MaxKaFails)]
  ELSE [k EXCEPT !.pc = "select", !.budget = @ - 1,
                 !.fails = Min(@ + 1, MaxKaFails)]

\* The goroutine after a SendRequest that returned an error.  The loop of
\* maxErrRetries <= 0 drops the result; the other one runs
\* `if maxErrRetries <= 0 { return }; maxErrRetries -= 1`.
KaAfterErr(k) ==
  IF k.mode = "unlimited"
  THEN [k EXCEPT !.pc = "select", !.fails = Min(@ + 1, MaxKaFails)]
  ELSE IF k.budget <= 0
  THEN [k EXCEPT !.pc = "stopped", !.why = "budget",
                 !.fails = Min(@ + 1, MaxKaFails)]
  ELSE [k EXCEPT !.pc = "select", !.budget = @ - 1,
                 !.fails = Min(@ + 1, MaxKaFails)]

\* A plausible slip: a request that succeeds gives the budget back.
KaAfterOk_restores(k) ==
  [k EXCEPT !.pc = "select", !.budget = k.n0, !.okBetween = @ \/ k.fails > 0]

\* The goroutine after a SendRequest that returned no error: neither loop
\* touches maxErrRetries, the next iteration follows.
KaAfterOk(k) ==
  [k EXCEPT !.pc = "select", !.okBetween = @ \/ k.fails > 0]

\* case <-ticker.C: SendRequest("keepalive@nss", true, nil) is called.  On a
\* closed channel it returns an error at once; otherwise the request is on
\* its way and the goroutine waits for the reply.
KaTick ==
  /\ ka.pc = "select"
  /\ ka' = IF sess.chOpen THEN [ka EXCEPT !.pc = "sending"] ELSE KaAfterErr(ka)
  /\ UNCHANGED <<sess, call, win, term, fwdVars, auxVars>>

\* A plausible slip: the goroutine closes the session when it gives up.
KaReply_closes ==
  /\ ka.pc = "sending"
  /\ \/ sess.chOpen /\ ka' = KaAfterOk(ka) /\ sess' = sess
     \/ /\ ka' = KaAfterErr(ka)
        /\ sess' = IF KaAfterErr(ka).pc = "stopped"
                   THEN [sess EXCEPT !.st = "terminated", !.chOpen = FALSE]
                   ELSE sess
  /\ UNCHANGED <<call, win, term, fwdVars, auxVars>>

\* SendRequest returns: with the reply of the remote, or with an error (the
\* channel was closed meanwhile, or the transport failed).
KaReply ==
  /\ ka.pc = "sending"
  /\ \/ sess.chOpen /\ ka' = KaAfterOk(ka)
     \/ ka' = KaAfterErr(ka)
  /\ UNCHANGED <<sess, call, win, term, fwdVars, auxVars>>

\* A plausible slip: only the counting loop has the case <-ctx.Done().
KaObserveCancel_budgetOnly ==
  /\ ka.pc = "select"
  /\ ka.mode = "budget"
  /\ ka.cancelCalls > 0
  /\ ka' = [ka EXCEPT !.pc = "stopped", !.why = "cancel"]
  /\ UNCHANGED <<sess, call, win, term, fwdVars, auxVars>>

\* case <-ctx.Done(): return
KaObserveCancel ==
  /\ ka.pc = "select"
  /\ ka.cancelCalls > 0
  /\ ka' = [ka EXCEPT !.pc = "stopped", !.why = "cancel"]
  /\ UNCHANGED <<sess, call, win, term, fwdVars, auxVars>>

\* The caller calls the cancel function KeepAlive returned.
KaCancel ==
  /\ ka.mode # "none"
  /\ ka.cancelCalls < MaxCancelCalls
  /\ ka' = [ka EXCEPT !.cancelCalls = @ + 1]
  /\ UNCHANGED <<sess, call, win, term, fwdVars, auxVars>>

\* ------------------------------ SendWinChange and AutoUpdateTerminalSize
\* win: the resize watcher; w, h are its termWidth, termHeight, sig says that
\* a SIGWINCH waits in sigwinchChan, windows is "windows" == runtime.GOOS,
\* lastSent whether its latest SendWinChange sent a window-change request.
\* term is the size term.GetSize would measure.
NoWin ==
  [kind |-> "none", pc |-> "none", w |-> 0, h |-> 0, sig |-> FALSE,
   windows |-> FALSE, cancelCalls |-> 0, lastSent |-> FALSE]

Dim == 1..MaxDim

\* A plausible slip: the request is sent without comparing the sizes.
SendWinChange_always(oldTermHeight, oldTermWidth) ==
  {[w |-> oldTermWidth, h |-> oldTermHeight, err |-> TRUE, sent |-> FALSE]}
  \cup (IF sess.chOpen
        THEN {[w |-> term.w, h |-> term.h, err |-> FALSE, sent |-> TRUE]}
        ELSE {})

\* A plausible slip: on an error the old sizes are returned in the order of
\* the parameters, height first.
SendWinChange_swapped(oldTermHeight, oldTermWidth) ==
  {[w |-> oldTermHeight, h |-> oldTermWidth, err |-> TRUE, sent |-> FALSE]}
  \cup
  (IF term.h = oldTermHeight /\ term.w = oldTermWidth
   THEN {[w |-> term.w, h |-> term.h, err |-> FALSE, sent |-> FALSE]}
   ELSE IF sess.chOpen
        THEN {[w |-> term.w, h |-> term.h, err |-> FALSE, sent |-> TRUE]}
        ELSE {})

\* The results SendWinChange(fd, oldTermHeight, oldTermWidth) can have: the
\* (width, height) it returns, its error, and the size it sent, if it sent one.
SendWinChange(oldTermHeight, oldTermWidth) ==
  {[w |-> oldTermWidth, h |-> oldTermHeight, err |-> TRUE, sent |-> FALSE]}
  \cup
  (IF term.h = oldTermHeight /\ term.w = oldTermWidth
   THEN {[w |-> term.w, h |-> term.h, err |-> FALSE, sent |-> FALSE]}
   ELSE {[w |-> oldTermWidth, h |-> oldTermHeight, err |-> TRUE, sent |-> FALSE]}
        \cup (IF sess.chOpen
              THEN {[w |-> term.w, h |-> term.h, err |-> FALSE, sent |-> TRUE]}
              ELSE {}))

\* s.sess.WindowChange(newTermHeight, newTermWidth) as it arrives.
Notified(r) ==
  IF r.sent THEN [sess EXCEPT !.remoteWin = [w |-> term.w, h |-> term.h]] ELSE sess

\* AutoUpdateTerminalSize / AutoUpdateTerminalSizeForWindowsOS up to their
\* return: the first SendWinChange(fd, 0, 0); on its error, or without Windows
\* in the ticker variant, no watcher is started and no cancel is returned.
WinStart ==
  /\ win.pc = "init"
  /\ \E r \in SendWinChange(0, 0) :
       /\ sess' = Notified(r)
       /\ win' = IF r.err \/ (win.kind = "ticker" /\ ~win.windows)
                 THEN [win EXCEPT !.pc = "failed", !.lastSent = r.sent]
                 ELSE [win EXCEPT !.pc = "select", !.w = r.w, !.h = r.h,
                                  !.lastSent = r.sent]
  /\ UNCHANGED <<call, ka, term, fwdVars, auxVars>>

\* case <-sigwinchChan (or <-ticker):
\* termWidth, termHeight, err = s.SendWinChange(fd, termHeight, termWidth)
WinTrigger ==
  /\ win.pc = "select"
  /\ win.kind = "ticker" \/ win.sig
  /\ \E r \in SendWinChange(win.h, win.w) :
       /\ sess' = Notified(r)
       /\ win' = [win EXCEPT !.w = r.w, !.h = r.h, !.sig = FALSE,
                              !.lastSent = r.sent]
  /\ UNCHANGED <<call, ka, term, fwdVars, auxVars>>

\* case <-ctx.Done(): return
WinObserveCancel ==
  /\ win.pc = "select"
  /\ win.cancelCalls > 0
  /\ win' = [win EXCEPT !.pc = "stopped"]
  /\ UNCHANGED <<sess, call, ka, term, fwdVars, auxVars>>

\* The caller calls the cancel function the watcher's start returned.
WinCancel ==
  /\ win.pc \in {"select", "stopped"}
  /\ win.cancelCalls < MaxCancelCalls
  /\ win' = [win EXCEPT !.cancelCalls = @ + 1]
  /\ UNCHANGED <<sess, call, ka, term, fwdVars, auxVars>>

\* The terminal gets a size (a new one or, for a stray signal, the old one)
\* and the process a SIGWINCH, which signal.Notify puts into sigwinchChan.
TermResize ==
  /\ win.pc = "select"
  /\ \E w \in Dim, h \in Dim : term' = [w |-> w, h |-> h]
  /\ win' = [win EXCEPT !.sig = (win.kind = "sigwinch")]
  /\ UNCHANGED <<sess, call, ka, fwdVars, auxVars>>

\* ---------------------------------------------------------------- SetEnvs
\* env: one call SetEnvs(session, envs).  isNil says envs == nil, names are the
\* keys of *envs, todo those the range loop has still to visit, tried the
\* visits so far in their order (the variable and whether Setenv succeeded),
\* err the variable err of the function: 0 for nil, k for the error that
\* Setenv returned for variable k.
EnvName == 1..MaxEnvs

NoEnv ==
  [pc |-> "none", isNil |-> FALSE, names |-> {}, todo |-> {}, tried |-> <<>>,
   err |-> 0, result |-> 0]

\* if envs != nil { var err error = nil; for ... } else return nil
SetEnvsCall ==
  /\ env.pc = "call"
  /\ env' = IF env.isNil THEN [env EXCEPT !.pc = "returned", !.result = 0]
            ELSE [env EXCEPT !.pc = "loop", !.todo = env.names, !.err = 0]
  /\ UNCHANGED <<sess, call, ka, win, term, kh, fwdVars>>

\* A plausible slip: the first error is kept.
SetEnvsNext_firstErr ==
  /\ env.pc = "loop"
  /\ \E k \in env.todo, ok \in BOOLEAN :
       env' = [env EXCEPT !.todo = @ \ {k},
                          !.tried = Append(@, [k |-> k, ok |-> ok]),
                          !.err = IF ok \/ env.err # 0 THEN @ ELSE k]
  /\ UNCHANGED <<sess, call, ka, win, term, kh, fwdVars>>

\* One round of `for k, v := range *envs`, which visits the keys in no fixed
\* order: e := session.Setenv(k, v); if e != nil { err = e }
SetEnvsNext ==
  /\ env.pc = "loop"
  /\ \E k \in env.todo, ok \in BOOLEAN :
       env' = [env EXCEPT !.todo = @ \ {k},
                          !.tried = Append(@, [k |-> k, ok |-> ok]),
                          !.err = IF ok THEN @ ELSE k]
  /\ UNCHANGED <<sess, call, ka, win, term, kh, fwdVars>>

\* The loop is over: return err
SetEnvsReturn ==
  /\ env.pc = "loop"
  /\ env.todo = {}
  /\ env' = [env EXCEPT !.pc = "returned", !.result = env.err]
  /\ UNCHANGED <<sess, call, ka, win, term, kh, fwdVars>>

\* ------------------------------------------------------- KnownHostsCheck
\* A line of a known_hosts file: a host with its key, or a revoked key.
KhHost == {"h1", "h2"}
KhKey == {"k1", "k2"}

KhLine ==
  [kind : {"host"}, host : KhHost, key : KhKey]
  \cup [kind : {"revoked"}, host : {"*"}, key : KhKey]

\* What the user types at a prompt, or the end of the input.
Stdin == {"yes", "YES", "no", "maybe", "EOF"}

\* strings.ToLower
ToLower(a) == IF a = "YES" THEN "yes" ELSE a

\* kh: one call KnownHostsCheck(hostname, remote, key) of a checker with the
\* field Interactively.  hasFiles says that kw.files is not empty, store holds
\* the lines of the files, ans1 and ans2 are what the user will type, read,
\* asked1 and asked2 say what the call has done, appended holds the lines it
\* wrote at the end of kw.files[0].
NoKh ==
  [pc |-> "none", hasFiles |-> FALSE, store |-> <<>>, interactive |-> FALSE,
   host |-> "h1", remote |-> "h1", key |-> "k1", ans1 |-> "EOF", ans2 |-> "EOF",
   read |-> FALSE, asked1 |-> FALSE, asked2 |-> FALSE, result |-> "none",
   appended |-> <<>>]

\* The host lines of the store for host h, in the order of the files.
HostLines(store, h) ==
  SelectSeq(store, LAMBDA l : l.kind = "host" /\ l.host = h)

Revoked(store, k) ==
  \E i \in 1..Len(store) : store[i].kind = "revoked" /\ store[i].key = k

\* A plausible slip: a line for the host is enough, whatever its key.
HostKeyCheck_hostOnly(store, h, k) ==
  IF Revoked(store, k) THEN "revoked"
  ELSE IF HostLines(store, h) = <<>> THEN "keyUnknown"
  ELSE "nil"

\* A plausible slip: revoked keys are not looked at.
HostKeyCheck_noRevoked(store, h, k) ==
  IF HostLines(store, h) = <<>> THEN "keyUnknown"
  ELSE IF HostLines(store, h)[1].key # k THEN "keyMismatch"
  ELSE "nil"

\* callback(hostname, remote, key) of knownhosts.New: a revoked key is an
\* error; otherwise the first line for the host name (keys of one type) decides.
HostKeyCheck(store, h, k) ==
  IF Revoked(store, k) THEN "revoked"
  ELSE IF HostLines(store, h) = <<>> THEN "keyUnknown"
  ELSE IF HostLines(store, h)[1].key # k THEN "keyMismatch"
  ELSE "nil"

\* A plausible slip: the files are read whether there are any or not.
KhStart_noFileCheck ==
  /\ kh.pc = "call"
  /\ \/ kh' = [kh EXCEPT !.pc = "check", !.read = TRUE]
     \/ kh' = [kh EXCEPT !.pc = "done", !.read = TRUE, !.result = "readErr"]
  /\ UNCHANGED <<sess, call, ka, win, term, env, fwdVars>>

\* if kw.files == nil || len(kw.files) == 0 { return errors.New(...) };
\* callback, err := knownhosts.New(kw.files...), which reads the files and
\* may fail on them.
KhStart ==
  /\ kh.pc = "call"
  /\ IF ~kh.hasFiles
     THEN kh' = [kh EXCEPT !.pc = "done", !.result = "noFile"]
     ELSE \/ kh' = [kh EXCEPT !.pc = "check", !.read = TRUE]
          \/ kh' = [kh EXCEPT !.pc = "done", !.read = TRUE, !.result = "readErr"]
  /\ UNCHANGED <<sess, call, ka, win, term, env, fwdVars>>

\* err = callback(hostname, remote, key); if err != nil { return err };
\* if !kw.Interactively { return nil }
KhCheck ==
  /\ kh.pc = "check"
  /\ LET r == HostKeyCheck(kh.store, kh.host, kh.key)
     IN kh' = IF r # "nil" THEN [kh EXCEPT !.pc = "done", !.result = r]
              ELSE IF ~kh.interactive THEN [kh EXCEPT !.pc = "done", !.result = "nil"]
              ELSE [kh EXCEPT !.pc = "prompt1"]
  /\ UNCHANGED <<sess, call, ka, win, term, env, fwdVars>>

\* "No host key found in ..., continue? [yes/NO]" and fmt.Scan(&answer)
KhPrompt1 ==
  /\ kh.pc = "prompt1"
  /\ kh' = IF kh.ans1 = "EOF"
           THEN [kh EXCEPT !.pc = "done", !.asked1 = TRUE, !.result = "scanErr"]
           ELSE IF ToLower(kh.ans1) = "yes"
           THEN [kh EXCEPT !.pc = "prompt2", !.asked1 = TRUE]
           ELSE [kh EXCEPT !.pc = "done", !.asked1 = TRUE, !.result = "unknownHost"]
  /\ UNCHANGED <<sess, call, ka, win, term, env, fwdVars>>

\* "Append ...'s host key into ...? [YES/no]" and fmt.Scan(&answer); on the
\* answer "yes" the line knownhosts.Line([]string{remote.String()}, key) is
\* written at the end of kw.files[0], and a failure to do so is only printed.
KhPrompt2 ==
  /\ kh.pc = "prompt2"
  /\ IF kh.ans2 = "EOF"
     THEN kh' = [kh EXCEPT !.pc = "done", !.asked2 = TRUE, !.result = "scanErr"]
     ELSE IF ToLower(kh.ans2) = "no" \/ kh.ans2 # "yes"
     THEN kh' = [kh EXCEPT !.pc = "done", !.asked2 = TRUE, !.result = "nil"]
     ELSE \/ kh' = [kh EXCEPT !.pc = "done", !.asked2 = TRUE, !.result = "nil",
                              !.appended = <<[kind |-> "host", host |-> kh.remote,
                                             key |-> kh.key]>>]
          \/ kh' = [kh EXCEPT !.pc = "done", !.asked2 = TRUE, !.result = "nil"]
  /\ UNCHANGED <<sess, call, ka, win, term, env, fwdVars>>

\* Neither SetEnvs nor KnownHostsCheck is in use.
AuxIdle ==
  /\ env = NoEnv
  /\ kh = NoKh

\* No session is in use.
SessIdle ==
  /\ AuxIdle
  /\ sess = NoSess
  /\ call = [p \in Callers |-> NoCall]
  /\ ka = NoKa
  /\ win = NoWin
  /\ term = [w |-> 1, h |-> 1]

\* --------------------------------------------- a single call of the copier
\* Slot 1 holds the source (side l) and the sink (side r) of one direct call
\* CopyBufferWithContext(dst, src, buf, ctx); the other slots are unused.
InitCopy ==
  /\ SessIdle
  /\ \E data \in SeqsUpTo(Byte, MaxLen), wt \in BOOLEAN, rf \in BOOLEAN,
        wm \in {"ok", "faulty"} :
       conn = [b \in B |-> [s \in Side |->
                 IF b # 1 THEN NoConn
                 ELSE IF s = "l" THEN NewConn(data, "ok", wt, FALSE)
                 ELSE NewConn(<<>>, wm, FALSE, rf)]]
  /\ \E n \in 0..MaxBuf, fired \in BOOLEAN :
       /\ task = [b \in B |->
                    IF b = 1 THEN [NoTask EXCEPT !.kind = "copy", !.pc = "call",
                                                 !.bufSize = n, !.ctxAtCall = fired]
                    ELSE NoTask]
       /\ ctxDone = [c \in Ctx |-> c = "c1" /\ fired]
  /\ loop = NoLoop
  /\ copy = [b \in B |-> [d \in Dir |->
               IF b = 1 /\ d = "l2r" THEN StartCopy(b, d) ELSE IdleCopy]]

CopyStep(b, d) ==
  \/ CopySelect(b, d)
  \/ CopyRead(b, d)
  \/ CopyWrite(b, d)

NextCopy ==
  \/ \E b \in B, d \in Dir : CopyStep(b, d)
  \/ \E b \in B, s \in Side : PeerSend(b, s)
  \/ \E b \in B, s \in Side : PeerEnd(b, s)
  \/ Cancel("c1")

SpecCopy == InitCopy /\ [][NextCopy]_vars

\* ------------------------------------------------------ a one-shot bind
\* The streams a bind works on.  The local stream is a plain net.Conn or one
\* that has ReadFrom and WriteTo (as *net.TCPConn has); the dialled stream is the
\* ssh package's channel connection, which has neither.  The local peer sends at
\* most MaxBindLen bytes, the remote peer none; a write to the remote stream
\* may give any result (among them the full write without error).
BoundConns(st) ==
  {[s \in Side |->
      IF s = "l" THEN [NoConn EXCEPT !.st = st, !.data = dl,
                                     !.writerTo = tcp, !.readerFrom = tcp]
      ELSE [NoConn EXCEPT !.wmode = "faulty"]] :
     dl \in SeqsUpTo({"a"}, MaxBindLen), tcp \in BOOLEAN}

\* Slot 1 is the lconn of one call BindConnToWithBuffer(lconn, ..., rctx, wctx).
InitBind ==
  /\ SessIdle
  /\ \E c \in BoundConns("open") :
       conn = [b \in B |-> IF b = 1 THEN c ELSE [s \in Side |-> NoConn]]
  /\ copy = [b \in B |-> [d \in Dir |-> IdleCopy]]
  /\ \E n \in {0, 1}, wc \in Ctx :
       task = [b \in B |->
                 IF b = 1 THEN [NoTask EXCEPT !.kind = "bind", !.pc = "dial",
                                              !.bufSize = n, !.rctx = "c1", !.wctx = wc]
                 ELSE NoTask]
  /\ loop = NoLoop
  /\ ctxDone = [c \in Ctx |-> FALSE]

GoStep(b, d) ==
  \/ GoCloseL(b, d)
  \/ GoCloseR(b, d)

BindStep(b) ==
  \/ BindDialOk(b)
  \/ BindDialFail(b)
  \/ BindConnsStart(b)
  \/ BindConnsWait(b)

NextBind ==
  \/ \E b \in B : BindStep(b)
  \/ \E b \in B, d \in Dir : CopyStep(b, d)
  \/ \E b \in B, d \in Dir : GoStep(b, d)
  \/ \E b \in B, s \in Side : PeerSend(b, s)
  \/ \E b \in B, s \in Side : PeerEnd(b, s)
  \/ \E c \in Ctx : Cancel(c)

SpecBind == InitBind /\ [][NextBind]_vars

\* The Go scheduler runs every goroutine that can take a step; the peers and
\* the callers of the cancel functions are under no obligation.
FairBind ==
  /\ \A b \in B : WF_vars(BindStep(b))
  /\ \A b \in B, d \in Dir : WF_vars(CopyStep(b, d)) /\ WF_vars(GoStep(b, d))

FairSpecBind == InitBind /\ [][NextBind]_vars /\ FairBind

\* ------------------------------------------------------ the accept loops
\* The connections the listener will hand out and the dialler will open.
InitLoop ==
  /\ SessIdle
  /\ \E c \in BoundConns("none") : conn = [b \in B |-> c]
  /\ copy = [b \in B |-> [d \in Dir |-> IdleCopy]]
  /\ task = [b \in B |-> NoTask]
  /\ \E k \in {"redirect", "directTcp"}, cb \in BOOLEAN :
       loop = [NoLoop EXCEPT !.kind = k, !.pc = "select", !.hasCb = cb, !.bufSize = 0]
  /\ ctxDone = [c \in Ctx |-> FALSE]

LoopStep ==
  \/ LoopSelect
  \/ LoopAcceptOk
  \/ LoopAcceptErr
  \/ LoopHookOk
  \/ LoopHookErr

HandlerStep(b) ==
  \/ RedirectDialOk(b)
  \/ RedirectDialFail(b)
  \/ HandlerSelect(b)
  \/ HandlerResolve(b)

NextLoop ==
  \/ LoopStep
  \/ \E b \in B : HandlerStep(b)
  \/ \E b \in B : BindStep(b)
  \/ \E b \in B, d \in Dir : CopyStep(b, d)
  \/ \E b \in B, d \in Dir : GoStep(b, d)
  \/ \E b \in B, s \in Side : PeerSend(b, s)
  \/ \E b \in B, s \in Side : PeerEnd(b, s)
  \/ Cancel(LoopCtx)

SpecLoop == InitLoop /\ [][NextLoop]_vars

\* One-shot binds and accept loops together.
InitFwd == InitBind \/ InitLoop

NextFwd ==
  \/ LoopStep
  \/ \E b \in B : HandlerStep(b)
  \/ \E b \in B : BindStep(b)
  \/ \E b \in B, d \in Dir : CopyStep(b, d)
  \/ \E b \in B, d \in Dir : GoStep(b, d)
  \/ \E b \in B, s \in Side : PeerSend(b, s)
  \/ \E b \in B, s \in Side : PeerEnd(b, s)
  \/ \E c \in Ctx : Cancel(c)

SpecFwd == InitFwd /\ [][NextFwd]_vars

\* --------------------------------------------------- Shell / Exec callers
\* No forwarding is in use.
FwdIdle ==
  /\ conn = [b \in B |-> [s \in Side |-> NoConn]]
  /\ copy = [b \in B |-> [d \in Dir |-> IdleCopy]]
  /\ task = [b \in B |-> NoTask]
  /\ loop = NoLoop
  /\ ctxDone = [c \in Ctx |-> FALSE]

\* A fresh session and the callers that will invoke Shell or Exec on it, one
\* after the other or at the same time.
InitExec ==
  /\ FwdIdle
  /\ SessIdle

CallStep(p) ==
  \/ \E op \in Op : SessInvoke(p, op)
  \/ SessSend(p)
  \/ SessWait(p)

NextExec ==
  \/ \E p \in Callers : CallStep(p)
  \/ SessExit
  \/ SessClose

SpecExec == InitExec /\ [][NextExec]_vars

\* ------------------------------------------------- PreparePty callers
\* The callers may also ask for a pty, before, between or after the calls of
\* Shell and Exec.
NextPty ==
  \/ \E p \in Callers : CallStep(p)
  \/ \E p \in Callers : SessPreparePty(p)
  \/ SessExit
  \/ SessClose

SpecPty == InitExec /\ [][NextPty]_vars

\* ------------------------------------------- the background activities
\* A session on which KeepAlive was called, with any interval and budget.
InitKa ==
  /\ FwdIdle
  /\ AuxIdle
  /\ sess = NoSess
  /\ call = [p \in Callers |-> NoCall]
  /\ \E i \in BOOLEAN, n \in -1..MaxRetries : ka = KeepAlive(i, n)
  /\ win = NoWin
  /\ term = [w |-> 1, h |-> 1]

\* A session on which one of the resize watchers is about to be started.
InitWin ==
  /\ FwdIdle
  /\ AuxIdle
  /\ sess = NoSess
  /\ call = [p \in Callers |-> NoCall]
  /\ ka = NoKa
  /\ \E k \in {"sigwinch", "ticker"}, os \in BOOLEAN :
       /\ k = "sigwinch" => ~os
       /\ win = [NoWin EXCEPT !.kind = k, !.pc = "init", !.windows = os]
  /\ \E w \in Dim, h \in Dim : term = [w |-> w, h |-> h]

InitBg == InitKa \/ InitWin

KaStep ==
  \/ KaTick
  \/ KaReply
  \/ KaObserveCancel

WinStep ==
  \/ WinStart
  \/ WinTrigger
  \/ WinObserveCancel

\* The background activities next to one foreground call of Shell or Exec.
NextBg ==
  \/ CallStep(1)
  \/ SessExit
  \/ SessClose
  \/ KaStep
  \/ KaCancel
  \/ WinStep
  \/ WinCancel
  \/ TermResize

SpecBg == InitBg /\ [][NextBg]_vars

\* A request with wantReply returns: the remote has to answer it, and a dead
\* connection fails it.  A goroutine in a select whose ctx.Done() case is ready
\* takes that case sooner or later: Go chooses among the ready cases at random,
\* and between two ticks it is the only ready one.
FairBg ==
  /\ WF_vars(KaReply)
  /\ SF_vars(KaObserveCancel)
  /\ WF_vars(WinObserveCancel)

FairSpecBg == InitBg /\ [][NextBg]_vars /\ FairBg

\* ------------------------------------------------------- a SetEnvs call
\* No session and no forwarding is in use.
CoreIdle ==
  /\ FwdIdle
  /\ sess = NoSess
  /\ call = [p \in Callers |-> NoCall]
  /\ ka = NoKa
  /\ win = NoWin
  /\ term = [w |-> 1, h |-> 1]

\* SetEnvs is called with nil or with a map of any variables.
InitEnv ==
  /\ CoreIdle
  /\ kh = NoKh
  /\ \E n \in BOOLEAN, m \in SUBSET EnvName :
       /\ n => m = {}
       /\ env = [NoEnv EXCEPT !.pc = "call", !.isNil = n, !.names = m]

NextEnv ==
  \/ SetEnvsCall
  \/ SetEnvsNext
  \/ SetEnvsReturn

SpecEnv == InitEnv /\ [][NextEnv]_vars

\* ----------------------------------------------- a KnownHostsCheck call
\* The checker, the files, the presented host, address and key, and the
\* answers the user will give.
InitKh ==
  /\ CoreIdle
  /\ env = NoEnv
  /\ \E f \in BOOLEAN, st \in SeqsUpTo(KhLine, MaxLines), i \in BOOLEAN,
        h \in KhHost, r \in KhHost, k \in KhKey, a1 \in Stdin, a2 \in Stdin :
       /\ ~f => st = <<>>
       /\ ~i => (a1 = "EOF" /\ a2 = "EOF")
       /\ kh = [NoKh EXCEPT !.pc = "call", !.hasFiles = f, !.store = st,
                            !.interactive = i, !.host = h, !.remote = r,
                            !.key = k, !.ans1 = a1, !.ans2 = a2]

NextKh ==
  \/ KhStart
  \/ KhCheck
  \/ KhPrompt1
  \/ KhPrompt2

SpecKh == InitKh /\ [][NextKh]_vars

\* ------------------------------------------------------------------ claims
\* C1: in every binding (bindConnsWithBuffer or the goroutines of
\* RedirectToWithBuffer), as soon as one direction has ended both streams are
\* closed; each stream is closed by exactly one Close call, the later calls
\* change nothing, and their errors do not reach the result of the bind.
C1_BothClosedExactlyOnce ==
  \A b \in B :
    /\ \A s \in Side : conn[b][s].closeOk <= 1
    /\ (\E d \in Dir : copy[b][d].pc = "done") =>
         \A s \in Side : conn[b][s].st = "closed" /\ conn[b][s].closeOk = 1
    /\ (task[b].pc = "returned" /\ \E s \in Side : conn[b][s].closeCalls > 0) =>
         task[b].result = "nil"

\* Both directions of a binding have ended: each stream got two Close calls.
C1_Witness ==
  \E b \in B :
    /\ \A d \in Dir : copy[b][d].pc = "done"
    /\ \A s \in Side : conn[b][s].closeCalls = 2 /\ conn[b][s].closeOk = 1
    /\ task[b].pc = "returned"

\* C2: the blocking bind has returned nil only when both copies have ended and
\* both goroutines have made their Close calls.
C2_ReturnAfterBothEnded ==
  \A b \in B :
    (task[b].kind \in {"bind", "directTcp"} /\ task[b].pc = "returned"
       /\ task[b].result = "nil") =>
      /\ \A d \in Dir : copy[b][d].pc = "done"
      /\ \A s \in Side : conn[b][s].closeCalls = 2

\* The bind has returned after a binding.
C2_Witness == task[1].kind = "bind" /\ task[1].pc = "returned" /\ task[1].result = "nil"

\* C3: once one direction of a binding has ended and made its Close calls, the
\* other direction ends too and the blocking bind returns.
C3_OtherDirectionEnds ==
  \A b \in B : (\E d \in Dir : copy[b][d].pc = "done") ~> (task[b].pc = "returned")

\* One direction has ended while the other waits in a Read.
C3_Witness ==
  \E d \in Dir, e \in Dir : copy[1][d].pc = "done" /\ copy[1][e].pc = "read"

\* C4: a direction returns the cancelled outcome only when its own context was
\* cancelled: local->remote only on wctx, remote->local only on rctx; a direction
\* whose context is not cancelled ends by EOF, an I/O error or the closed stream.
C4_OwnSignalOnly ==
  \A b \in B :
    /\ copy[b]["l2r"].exit = "ctxDone" => ctxDone[task[b].wctx]
    /\ copy[b]["r2l"].exit = "ctxDone" => ctxDone[task[b].rctx]
    /\ \A d \in Dir :
         (copy[b][d].pc \in {"ret", "closedL"} /\ copy[b][d].exit # "ctxDone") =>
           copy[b][d].err \in {"nil", "readErr", "writeErr", "errClosed",
                               "ErrShortWrite", "errInvalidWrite"}

\* rctx alone is cancelled, remote->local took the cancelled exit and
\* local->remote has ended on the closed stream.
C4_Witness ==
  /\ task[1].rctx # task[1].wctx
  /\ ctxDone[task[1].rctx] /\ ~ctxDone[task[1].wctx]
  /\ copy[1]["r2l"].pc = "closedL" /\ copy[1]["r2l"].exit = "ctxDone"
  /\ copy[1]["l2r"].pc = "ret" /\ copy[1]["l2r"].err = "errClosed"

\* C5 (as claimed): once the contexts of a running binding are cancelled, both
\* connections are eventually closed.
C5_CancelClosesBoth ==
  \A b \in B :
    (task[b].pc = "wait" /\ ctxDone[task[b].rctx] /\ ctxDone[task[b].wctx])
      ~> (\A s \in Side : conn[b][s].st = "closed")

\* C6: a copy whose context is never cancelled, from a source that delivers its
\* bytes and then EOF to a sink that takes every write, writes exactly the
\* source's bytes in order and returns their number and a nil error.
C6_ExactCopy ==
  LET c == copy[1]["l2r"]
  IN (task[1].kind = "copy" /\ c.pc = "ret" /\ ~ctxDone["c1"]
        /\ conn[1]["r"].wmode = "ok" /\ conn[1]["l"].peer = "eof") =>
       /\ conn[1]["r"].out = conn[1]["l"].data
       /\ c.written = Len(conn[1]["l"].data)
       /\ c.err = "nil"

\* A copy of MaxLen bytes has ended that way, its last bytes read with the EOF.
C6_Witness ==
  LET c == copy[1]["l2r"]
  IN /\ task[1].kind = "copy" /\ c.pc = "ret" /\ ~ctxDone["c1"]
     /\ conn[1]["r"].wmode = "ok" /\ conn[1]["l"].peer = "eof"
     /\ c.written = MaxLen
     /\ conn[1]["r"].out = conn[1]["l"].data

\* C7 (as claimed): a copy called with its context already cancelled reads
\* nothing, writes nothing and returns 0 and the cancelled outcome, whatever
\* the streams are.
C7_PreCancelledDoesNothing ==
  LET c == copy[1]["l2r"]
  IN (task[1].kind = "copy" /\ task[1].ctxAtCall) =>
       /\ ~c.didRead /\ ~c.didWrite /\ c.written = 0
       /\ conn[1]["l"].readN = 0 /\ conn[1]["r"].out = <<>>
       /\ c.pc = "ret" => c.exit = "ctxDone"

\* C8 (as claimed): a copy stopped by its context returns a nil error.
C8_CancelReturnsNil ==
  \A b \in B, d \in Dir : copy[b][d].exit = "ctxDone" => copy[b][d].err = "nil"

\* C9: a bind whose dial failed has returned that error, has started no copy,
\* has read and written nothing and has left the local stream open.
C9_DialFailureLeavesLocal ==
  \A b \in B :
    (task[b].kind \in {"bind", "directTcp"} /\ task[b].result = "dialErr") =>
      /\ task[b].pc = "returned"
      /\ \A d \in Dir : copy[b][d] = IdleCopy
      /\ conn[b]["l"].st = "open" /\ conn[b]["l"].closeCalls = 0
      /\ conn[b]["l"].readN = 0 /\ conn[b]["l"].out = <<>>
      /\ conn[b]["r"].st = "none"

\* A one-shot bind has returned the dial error.
C9_Witness ==
  task[1].kind = "bind" /\ task[1].pc = "returned" /\ task[1].result = "dialErr"

\* C10 (as claimed): an accepted connection whose goroutines have all ended, or
\* that got none because the loop returned, is closed, and so is its dialled
\* stream.
C10_AcceptedConnClosed ==
  \A b \in B :
    (/\ conn[b]["l"].st # "none"
     /\ \/ task[b].pc = "returned"
        \/ task[b].kind = "none" /\ loop.pc = "returned"
     /\ \A d \in Dir : copy[b][d].pc \in {"idle", "done"}) =>
      /\ conn[b]["l"].st = "closed"
      /\ conn[b]["r"].st # "open"

\* C11 (as claimed): a step of the accept loop out of the call of NewConnCb
\* leads to the next iteration, whatever the hook returned: a hook error aborts
\* the one connection and never ends the loop.
C11_HookErrorContinues ==
  [][(loop.pc = "hook" /\ loop' # loop) => loop'.pc = "select"]_vars

\* C12 (as claimed): with NewConnCb set, every connection RedirectToWithBuffer
\* hands to a forwarding goroutine has been passed through NewConnCb first.
C12_RedirectCallsHook ==
  (loop.kind = "redirect" /\ loop.hasCb) =>
    \A b \in B : task[b].kind = "redirect" => task[b].hooked

\* C13 (as claimed): an accept loop that has returned did so because its
\* context was cancelled or because Accept returned an error.
C13_ReturnOnlyCancelOrAcceptErr ==
  loop.pc = "returned" => loop.why \in {"ctx", "acceptErr"}

\* C14: the loop looks at its context before every Accept: with the context
\* cancelled at the top of an iteration it returns without a further Accept; a
\* blocked Accept ends only by its own result, never by the cancellation; after
\* an Accept error (as after any return) the loop does nothing more; and a
\* connection is accepted only by an Accept entered from such a check.
C14_CancelCheckedBeforeAccept ==
  [][/\ (loop.pc = "select" /\ ctxDone[LoopCtx] /\ loop' # loop) =>
          (loop'.pc = "returned" /\ loop'.why = "ctx"
             /\ loop'.nAccepted = loop.nAccepted)
     /\ (loop.pc = "select" /\ ~ctxDone[LoopCtx] /\ loop' # loop) =>
          (loop'.pc = "accept" /\ loop'.nAccepted = loop.nAccepted)
     /\ (loop.pc = "accept" /\ loop' # loop) =>
          \/ loop'.pc \in {"select", "hook"} /\ loop'.nAccepted = loop.nAccepted + 1
          \/ loop'.pc = "returned" /\ loop'.why = "acceptErr"
               /\ loop'.nAccepted = loop.nAccepted
     /\ loop.pc = "returned" => loop' = loop
     /\ loop'.nAccepted # loop.nAccepted => loop.pc = "accept"]_vars

\* The loop has served a connection and, at the top of the next iteration,
\* found its context cancelled.
C14_Witness ==
  loop.pc = "returned" /\ loop.why = "ctx" /\ loop.nAccepted >= 1

\* C15 (as claimed): as long as the context is not cancelled and Accept has not
\* failed, the loop has not returned, and every connection it accepted has got
\* its forwarding goroutine (the newest one may still be in the hook).
C15_EveryConnectionGetsBinding ==
  (loop.kind # "none" /\ ~ctxDone[LoopCtx] /\ loop.why # "acceptErr") =>
    /\ loop.pc # "returned"
    /\ \A b \in 1..loop.nAccepted :
         \/ loop.pc = "hook" /\ b = loop.cur
         \/ task[b].kind # "none"

C17_OneCallerStarts ==
  Cardinality({p \in Callers : call[p].pc = "wait"
                                 \/ call[p].err \in {"nil", "exitErr"}}) <= 1

\* C18 (as claimed): with maxErrRetries = N > 0 the failed requests never
\* number more than N, and with the N-th failure the goroutine has ended.
C18_StopsAfterNFailures ==
  ka.mode = "budget" =>
    /\ ka.fails <= ka.n0
    /\ ka.fails = ka.n0 => ka.pc = "stopped"

C20_CancelStopsBackground ==
  /\ (ka.cancelCalls > 0) ~> (ka.pc \in {"none", "stopped"})
  /\ (win.cancelCalls > 0) ~> (win.pc = "stopped")
  /\ [][/\ ka.pc = "stopped" =>
             [ka' EXCEPT !.cancelCalls = 0] = [ka EXCEPT !.cancelCalls = 0]
        /\ win.pc = "stopped" =>
             /\ [win' EXCEPT !.cancelCalls = 0] = [win EXCEPT !.cancelCalls = 0]
             /\ sess'.remoteWin = sess.remoteWin
        /\ (ka'.cancelCalls # ka.cancelCalls
              /\ (ka.cancelCalls > 0 \/ ka.pc = "stopped")) =>
             /\ [ka' EXCEPT !.cancelCalls = 0] = [ka EXCEPT !.cancelCalls = 0]
             /\ UNCHANGED <<sess, call, win, term>>
        /\ (win'.cancelCalls # win.cancelCalls
              /\ (win.cancelCalls > 0 \/ win.pc = "stopped")) =>
             /\ [win' EXCEPT !.cancelCalls = 0] = [win EXCEPT !.cancelCalls = 0]
             /\ UNCHANGED <<sess, call, ka, term>>]_vars

\* The keepalive goroutine of maxErrRetries <= 0 has ended by the cancel, and
\* the cancel function has been called again since.
C20_Witness ==
  /\ ka.mode = "unlimited"
  /\ ka.pc = "stopped"
  /\ ka.why = "cancel"
  /\ ka.cancelCalls = MaxCancelCalls

C22_BackgroundLeavesSession ==
  [][(ka' # ka \/ win' # win) =>
       /\ sess'.st = sess.st
       /\ sess'.started = sess.started
       /\ sess'.chOpen = sess.chOpen
       /\ call' = call]_vars

\* The keepalive goroutine has given up on its failed requests while the
\* session is running and the foreground call waits for its end.
C22_Witness ==
  /\ ka.pc = "stopped"
  /\ ka.why = "budget"
  /\ sess.st = "running"
  /\ call[1].pc = "wait"

\* C23: a call of SendWinChange, the first one or one on a trigger, sends a
\* window-change request only if the measured size differs from the size it
\* was given as the last known one.
C23_ResizeOnlyOnChange ==
  [][(WinStart \/ WinTrigger) =>
       (win'.lastSent =>
          IF win.pc = "init" THEN term.w # 0 \/ term.h # 0
          ELSE term.w # win.w \/ term.h # win.h)]_vars

\* The watcher is back at its select after a trigger that found the size it
\* knew and sent nothing.
C23_Witness ==
  /\ win.pc = "select"
  /\ ~win.lastSent
  /\ ~win.sig
  /\ win.w = term.w
  /\ win.h = term.h
  /\ sess.chOpen

\* C25 (as claimed): a call of PreparePty on a session that is not in Created
\* returns an error without sending a pty request.
C25_PtyOnlyInCreated ==
  \A p \in Callers :
    (call[p].op = "PreparePty" /\ call[p].atSt # "created") =>
      (~call[p].sent /\ call[p].err # "nil")

\* The last variable for which Setenv failed, in the order of the visits; 0
\* if none failed.
LastFailed(tried) ==
  LET F == {i \in 1..Len(tried) : ~tried[i].ok}
  IN IF F = {} THEN 0
     ELSE tried[CHOOSE i \in F : \A j \in F : j <= i].k

\* C24: when SetEnvs has returned, it has called Setenv once for every
\* variable of the map, whatever failed before; it returns the error of the
\* last call that failed, and nil exactly when envs is nil or no call failed.
C24_SetEnvsLastError ==
  env.pc = "returned" =>
    /\ Len(env.tried) = Cardinality(env.names)
    /\ {env.tried[i].k : i \in 1..Len(env.tried)} = env.names
    /\ env.isNil => env.tried = <<>>
    /\ env.result = LastFailed(env.tried)
    /\ env.result = 0 <=>
         (env.isNil \/ \A i \in 1..Len(env.tried) : env.tried[i].ok)

\* SetEnvs has returned after two failed calls with a successful one between
\* them, with the error of the second.
C24_Witness ==
  /\ env.pc = "returned"
  /\ \E i, j, l \in 1..Len(env.tried) :
       /\ i < j /\ j < l
       /\ ~env.tried[i].ok /\ env.tried[j].ok /\ ~env.tried[l].ok
       /\ env.result = env.tried[l].k

\* The call got as far as the lines of the files.
KhLooked == kh.pc = "done" /\ kh.result \notin {"noFile", "readErr"}

\* The files hold no line for the presented host name, and the presented key
\* is not revoked.
KhUnknown == HostLines(kh.store, kh.host) = <<>> /\ ~Revoked(kh.store, kh.key)

\* The files hold the presented host name with the presented key.
KhRecorded ==
  \E i \in 1..Len(kh.store) :
    kh.store[i] = [kind |-> "host", host |-> kh.host, key |-> kh.key]

\* C26: a check that is not interactive returns nil only if the files hold
\* the host with the presented key; for a host without a line it returns the
\* unknown-key error, and for a host whose lines all carry other keys the
\* mismatch error.
C26_NonInteractiveNeverTrusts ==
  (~kh.interactive /\ kh.pc = "done") =>
    /\ kh.result = "nil" => KhRecorded
    /\ (KhLooked /\ KhUnknown) => kh.result = "keyUnknown"
    /\ (KhLooked /\ HostLines(kh.store, kh.host) # <<>> /\ ~KhRecorded
          /\ ~Revoked(kh.store, kh.key)) => kh.result = "keyMismatch"

\* A check that is not interactive has refused a host that the files know
\* with another key.
C26_Witness ==
  /\ ~kh.interactive
  /\ kh.pc = "done"
  /\ kh.result = "keyMismatch"
  /\ HostLines(kh.store, kh.host) # <<>>

\* C27 (as claimed): an interactive check of a host without a line asks the
\* user, and returns nil after a first answer yes (whatever the second answer)
\* and the unknown-host error after any other first answer.
C27_UnknownHostPrompts ==
  (kh.interactive /\ KhLooked /\ KhUnknown) =>
    /\ kh.asked1
    /\ (ToLower(kh.ans1) = "yes" /\ kh.ans2 # "EOF") =>
         (kh.asked2 /\ kh.result = "nil")
    /\ kh.ans1 \in {"no", "maybe"} => kh.result = "unknownHost"

\* C28 (as claimed): an interactive check of a host without a line that the
\* user accepts and wants recorded returns nil with exactly one line appended,
\* which holds the presented host name and key; accepted without recording it
\* returns nil with nothing appended; refused it appends nothing; and never is
\* more than one line appended.
C28_AppendExactlyOne ==
  (kh.interactive /\ KhLooked /\ KhUnknown) =>
    /\ Len(kh.appended) <= 1
    /\ (ToLower(kh.ans1) = "yes" /\ kh.ans2 = "yes") =>
         /\ kh.result = "nil"
         /\ kh.appended = <<[kind |-> "host", host |-> kh.host, key |-> kh.key]>>
    /\ (ToLower(kh.ans1) = "yes" /\ kh.ans2 \in {"no", "YES", "maybe"}) =>
         (kh.result = "nil" /\ kh.appended = <<>>)
    /\ ToLower(kh.ans1) # "yes" => kh.appended = <<>>

\* C29: with the presented key among the revoked keys of the files the check,
\* interactive or not, asks nothing, appends nothing and does not return nil:
\* it returns the revocation error (or the error of reading the files).
C29_RevokedKeyFails ==
  (kh.hasFiles /\ Revoked(kh.store, kh.key)) =>
    /\ ~kh.asked1
    /\ ~kh.asked2
    /\ kh.appended = <<>>
    /\ kh.result # "nil"
    /\ kh.pc \in {"call", "check", "done"}
    /\ kh.pc = "done" => kh.result \in {"revoked", "readErr"}

\* An interactive check has refused a revoked key that the files also record
\* for the presented host.
C29_Witness ==
  /\ kh.interactive
  /\ kh.pc = "done"
  /\ kh.result = "revoked"
  /\ KhRecorded

\* C30: a checker without files reads nothing, asks nothing and returns the
\* no-file error, interactive or not.
C30_NoFilesFails ==
  ~kh.hasFiles =>
    /\ ~kh.read
    /\ ~kh.asked1
    /\ ~kh.asked2
    /\ kh.pc \in {"none", "call", "done"}
    /\ kh.pc = "done" => kh.result = "noFile"

\* An interactive checker without files has returned the no-file error.
C30_Witness ==
  /\ kh.pc = "done"
  /\ ~kh.hasFiles
  /\ kh.interactive
  /\ kh.result = "noFile"

\* C31: in the loop of CopyBufferWithContext a write result without error
\* that is short (zero included) gives ErrShortWrite, one that is negative or
\* larger than the bytes read gives errInvalidWrite, and a write error is
\* returned as it is; the copy goes on to a further read only with all bytes
\* read so far written, and a copy that ended with fewer bytes written than
\* read ended with one of these errors.
C31_ShortWriteIsFatal ==
  LET c == copy[1]["l2r"]
      src == conn[1]["l"]
      dst == conn[1]["r"]
  IN /\ \A nr \in 1..MaxLen : \A nw \in (-1)..(nr + 1) :
          /\ WriteErr(nr, nw, "nil") =
               IF nw < 0 \/ nw > nr THEN "errInvalidWrite"
               ELSE IF nw < nr THEN "ErrShortWrite" ELSE "go on"
          /\ WriteErr(nr, nw, "writeErr") = "writeErr"
     /\ (task[1].kind = "copy" /\ ~c.delegated) =>
          /\ c.pc \in {"loop", "read"} =>
               (c.written = src.readN /\ dst.out = SubSeq(src.data, 1, src.readN))
          /\ (c.pc = "ret" /\ c.written < src.readN) =>
               c.err \in {"ErrShortWrite", "errInvalidWrite", "writeErr"}
          /\ (c.pc = "ret" /\ c.err = "ErrShortWrite") => c.written < src.readN

\* A copy has ended with ErrShortWrite after a write that took none of the
\* bytes read.
C31_Witness ==
  LET c == copy[1]["l2r"]
  IN /\ task[1].kind = "copy" /\ ~c.delegated
     /\ c.pc = "ret" /\ c.err = "ErrShortWrite"
     /\ c.written = 0 /\ conn[1]["l"].readN > 0

\* C32: a copy that returned a nil error has read its source to the end and
\* written all of it, the bytes that came with the EOF included; a copy whose
\* writes did not fail returns nil after an EOF and the read error after a
\* failed read.
C32_EofEndsWithNil ==
  LET c == copy[1]["l2r"]
      src == conn[1]["l"]
      dst == conn[1]["r"]
  IN (task[1].kind = "copy" /\ ~c.delegated /\ c.pc = "ret" /\ c.exit = "ret") =>
       /\ c.err = "nil" =>
            /\ src.peer = "eof" /\ src.readN = Len(src.data)
            /\ c.written = src.readN
            /\ dst.out = src.data
       /\ c.err \notin {"ErrShortWrite", "errInvalidWrite", "writeErr"} =>
            /\ src.peer = "eof" => c.err = "nil"
            /\ src.peer = "reset" => c.err = "readErr"

\* A copy to a writer that may fail has ended with a nil error, all MaxLen
\* bytes of the source written.
C32_Witness ==
  LET c == copy[1]["l2r"]
  IN /\ task[1].kind = "copy" /\ ~c.delegated
     /\ c.pc = "ret" /\ c.exit = "ret" /\ c.err = "nil"
     /\ conn[1]["r"].wmode = "faulty"
     /\ c.written = MaxLen

\* C33: the count a write adds is the writer's count if that lies between 0
\* and the bytes read, and 0 otherwise; so the running count of a copy is never
\* negative, never more than the bytes read, and changes only at a write, by
\* a count between 0 and the bytes handed to that write.
C33_WrittenMonotone ==
  /\ [](/\ \A nr \in 1..MaxLen : \A nw \in (-1)..(nr + 1) :
             ValidNw(nr, nw) = IF 0 <= nw /\ nw <= nr THEN nw ELSE 0
        /\ \A b \in B, d \in Dir :
             /\ copy[b][d].written >= 0
             /\ task[b].kind = "copy" => copy[b][d].written <= conn[b][Src(d)].readN)
  /\ [][\A b \in B, d \in Dir :
          copy'[b][d].pc \notin {"idle", "done"} =>
            IF copy[b][d].pc = "write"
            THEN copy'[b][d].written - copy[b][d].written
                   \in 0..Len(copy[b][d].buf)
            ELSE copy'[b][d].written = copy[b][d].written]_vars

\* A copy has ended on an invalid write result after an earlier write that
\* counted.
C33_Witness ==
  LET c == copy[1]["l2r"]
  IN /\ task[1].kind = "copy"
     /\ c.pc = "ret" /\ c.err = "errInvalidWrite"
     /\ c.written > 0

\* C36 (as claimed): whatever the streams are, a copy goes from a write on to
\* its next read only with its context not cancelled.
C36_CancelSeenForEveryStream ==
  [][\A b \in B, d \in Dir :
       (copy[b][d].pc = "write" /\ copy'[b][d].pc = "read") =>
         ~ctxDone[CtxOf(b, d)]]_vars

\* C34: a bind returns the dial error exactly when the remote stream was never
\* established, and nil whenever it returns after the dial succeeded; the error
\* a direction's copy ends with comes from that direction's own Read or Write,
\* or from a stream of the binding being closed.  (A goroutine of
\* DirectTcpToWithBuffer that ended before its bind call made none.)
C34_ErrorIffDialFailed ==
  /\ [](\A b \in B :
          (task[b].kind \in {"bind", "directTcp"} /\ task[b].pc = "returned"
             /\ task[b].result \notin {"ctxDone", "resolveErr"}) =>
            /\ task[b].result \in {"nil", "dialErr"}
            /\ task[b].result = "dialErr" <=> conn[b]["r"].st = "none")
  /\ [][\A b \in B :
          /\ (task[b].pc = "wait" /\ task'[b].pc = "returned") =>
               task'[b].result = "nil"
          /\ \A d \in Dir :
               (copy'[b][d].er # copy[b][d].er /\ copy'[b][d].er = "readErr") =>
                 conn[b][Src(d)].peer = "reset"
          /\ \A d \in Dir :
               (task[b].kind \in {"bind", "directTcp"}
                  /\ copy'[b][d].err # copy[b][d].err) =>
                 /\ copy'[b][d].err = "readErr" =>
                      (conn[b][Src(d)].peer = "reset" \/ copy[b][d].er = "readErr")
                 /\ copy'[b][d].err \in {"writeErr", "ErrShortWrite", "errInvalidWrite"} =>
                      conn[b][Dst(d)].wmode = "faulty"
                 /\ copy'[b][d].err = "errClosed" =>
                      \E s \in Side : conn[b][s].st = "closed"]_vars

\* A bind to a remote stream whose writes may fail has returned nil with no
\* context cancelled: its copies ended by EOF, an I/O error or the closed stream.
C34_Witness ==
  /\ task[1].kind = "bind" /\ task[1].pc = "returned" /\ task[1].result = "nil"
  /\ conn[1]["r"].st = "closed" /\ conn[1]["r"].wmode = "faulty"
  /\ \A c \in Ctx : ~ctxDone[c]

\* C35 (as claimed): in RedirectToWithBuffer, once the one context is
\* cancelled the loop leaves its select only by returning, and no copy of a
\* binding the loop spawned goes on to a further Read: at the boundary before
\* it the copy takes the cancelled exit.
C35_SharedCancelStopsAll ==
  [][loop.kind = "redirect" =>
       /\ (ctxDone[LoopCtx] /\ loop.pc = "select" /\ loop'.pc # "select") =>
            (loop'.pc = "returned" /\ loop'.why = "ctx")
       /\ \A b \in B, d \in Dir :
            (task[b].kind = "redirect" /\ ctxDone[CtxOf(b, d)]
               /\ copy[b][d].pc # "read" /\ copy'[b][d].pc = "read") => FALSE]_vars

\* C37: in the counting loop of KeepAlive the remaining budget is the budget
\* of the call less the failed requests since the start, whatever succeeded
\* between them, and the goroutine that gave up has seen one failure more
\* than the budget of the call.
C37_BudgetNeverRestored ==
  ka.mode = "budget" =>
    /\ ka.budget = ka.n0 - Min(ka.fails, ka.n0)
    /\ (ka.pc = "stopped" /\ ka.why = "budget") => ka.fails = ka.n0 + 1

\* With a budget of 1 the goroutine has given up after a failed request, a
\* request that succeeded, and a second failed request.
C37_Witness ==
  /\ ka.mode = "budget" /\ ka.n0 = 1
  /\ ka.pc = "stopped" /\ ka.why = "budget"
  /\ ka.okBetween /\ ka.fails = 2

\* C38: the size the running watcher holds is the size of the last
\* window-change request that went out; a trigger whose SendWinChange sent a
\* request leaves the measured size with the watcher, and one that sent none
\* (the size was unchanged, or measuring or sending failed) leaves the
\* watcher's width and height as they were, each in its place.
C38_KnownSizeIsLastNotified ==
  /\ [](win.pc \in {"select", "stopped"} =>
          (win.w = sess.remoteWin.w /\ win.h = sess.remoteWin.h))
  /\ [][WinTrigger =>
          IF win'.lastSent
          THEN win'.w = term.w /\ win'.h = term.h
          ELSE win'.w = win.w /\ win'.h = win.h]_vars

\* A trigger of the signal-driven watcher has failed: the signal is used up,
\* nothing was sent, and the watcher still holds its old size, of a width
\* other than its height and other than what the terminal now measures.
C38_Witness ==
  /\ win.kind = "sigwinch" /\ win.pc = "select"
  /\ ~win.sig /\ ~win.lastSent
  /\ win.w # win.h
  /\ (win.w # term.w \/ win.h # term.h)

\* C39 (as claimed): a check, interactive or not, that found the presented
\* host recorded with the presented key returns nil, has asked the user
\* nothing and has appended nothing; and a check asks the user only about a
\* host that the files do not hold with the presented key.
C39_KnownHostAcceptedSilently ==
  /\ (KhLooked /\ HostKeyCheck(kh.store, kh.host, kh.key) = "nil") =>
       /\ kh.result = "nil"
       /\ ~kh.asked1 /\ ~kh.asked2
       /\ kh.appended = <<>>
  /\ kh.asked1 => HostKeyCheck(kh.store, kh.host, kh.key) # "nil"

====
